---------------------------- MODULE Spec2Model ----------------------------
(***************************************************************************)
(* Model of server.py: module import (environment loading, MongoDB client  *)
(* construction, FastAPI app construction), the lifespan generator, the    *)
(* CORS configuration and the root endpoint.                               *)
(*                                                                         *)
(* The model follows the module instance whose `app` is served.  The ASGI  *)
(* server and the asynccontextmanager wrapper drive the lifespan generator *)
(* by the lifespan protocol: startup message, requests while the body of   *)
(* the lifespan context is suspended, then a normal exit or an exception   *)
(* raised into the generator at its yield.                                 *)
(***************************************************************************)
EXTENDS Naturals, Sequences, FiniteSets

VARIABLES
    environ,       \* os.environ restricted to the keys the module reads
    dotenv_file,   \* content of ROOT_DIR/.env (key -> value or None)
    mpc,           \* position of the module-level code
    mongo_url,     \* module global mongo_url (line 48)
    db_name,       \* module global db_name (line 52)
    client,        \* module global client: "none", "open", "closed"
    app,           \* module global app: "none", "created"
    server,        \* the ASGI server running app
    genpc,         \* suspension point of the lifespan generator
    yields,        \* number of times the lifespan generator has yielded
    initCalls,     \* number of calls of initialize_database()
    initOutcome,   \* how initialize_database() ended
    closeCount,    \* number of calls of client.close()
    logs,          \* messages logged by lifespan, in order
    raised,        \* exception that left the lifespan context manager
    reqCount,      \* number of GET /api/ requests served
    lastResponse,  \* response of the last GET /api/
    lastCors       \* last CORS preflight: its request and response

vars == <<environ, dotenv_file, mpc, mongo_url, db_name, client, app, server,
          genpc, yields, initCalls, initOutcome, closeCount, logs, raised,
          reqCount, lastResponse, lastCors>>

importVars == <<environ, dotenv_file, mpc, mongo_url, db_name, app>>
genVars == <<genpc, yields, initCalls, initOutcome, closeCount, logs, raised>>
httpVars == <<reqCount, lastResponse, lastCors>>

-----------------------------------------------------------------------------
(* Values *)

None == "<None>"
Undefined == "<undefined>"
Absent == "<absent>"

MongoUrl == "mongodb://db.example:27017"
CustomDbName == "oia_test"
ForeignOrigin == "https://other.example"

EnvKeys == {"RENDER", "MONGO_URL", "DB_NAME"}

\* Bound on the number of GET /api/ requests counted in one run.
MaxRequests == 2

Range(s) == {s[i] : i \in DOMAIN s}

-----------------------------------------------------------------------------
(* Environment: os.getenv and load_dotenv *)

\* os.getenv(key, default): the value when the key is set, else the default.
getenv(env, key, default) == IF env[key] = None THEN default ELSE env[key]

\* load_dotenv(path) with override=False: a key of the file is set only when
\* the process environment does not have it already (an empty value counts
\* as set).
load_dotenv(env, file) ==
    [k \in EnvKeys |-> IF env[k] = None THEN file[k] ELSE env[k]]

\* Mutant: the check `mongo_url is None` instead of `not mongo_url`.
mongo_url_rejected_only_none(v) == v = None

\* Mutant: no check at all.
mongo_url_rejected_never(v) == FALSE

\* `not mongo_url` (line 49): true of None and of the empty string.
mongo_url_rejected(v) == v = None \/ v = ""

-----------------------------------------------------------------------------
(* Module-level code *)

\* Lines 25-26: load .env unless RENDER is set.
LoadEnvironment ==
    /\ mpc = "load_env"
    /\ environ' = IF getenv(environ, "RENDER", None) = None
                  THEN load_dotenv(environ, dotenv_file)
                  ELSE environ
    /\ mpc' = "mongo_setup"
    /\ UNCHANGED <<dotenv_file, mongo_url, db_name, client, app, server>>
    /\ UNCHANGED genVars
    /\ UNCHANGED httpVars

\* Lines 48-50: read MONGO_URL and raise ValueError when it is falsy.
MongoSetup ==
    /\ mpc = "mongo_setup"
    /\ mongo_url' = getenv(environ, "MONGO_URL", None)
    /\ mpc' = IF mongo_url_rejected(mongo_url') THEN "import_error"
              ELSE "client_setup"
    /\ UNCHANGED <<environ, dotenv_file, db_name, client, app, server>>
    /\ UNCHANGED genVars
    /\ UNCHANGED httpVars

\* Lines 52-54: db_name, client = AsyncIOMotorClient(mongo_url), db.
ClientSetup ==
    /\ mpc = "client_setup"
    /\ db_name' = getenv(environ, "DB_NAME", "medicapsoia")
    /\ client' = "open"
    /\ mpc' = "app_setup"
    /\ UNCHANGED <<environ, dotenv_file, mongo_url, app, server>>
    /\ UNCHANGED genVars
    /\ UNCHANGED httpVars

\* Lines 74-103: app = FastAPI(lifespan=lifespan), middleware, router, root.
AppSetup ==
    /\ mpc = "app_setup"
    /\ app' = "created"
    /\ mpc' = "main"
    /\ UNCHANGED <<environ, dotenv_file, mongo_url, db_name, client, server>>
    /\ UNCHANGED genVars
    /\ UNCHANGED httpVars

\* Lines 106-118: uvicorn.run(...): the server starts the lifespan protocol.
RunServer ==
    /\ mpc = "main"
    /\ app = "created"
    /\ mpc' = "uvicorn_run"
    /\ server' = "starting"
    /\ UNCHANGED <<environ, dotenv_file, mongo_url, db_name, client, app>>
    /\ UNCHANGED genVars
    /\ UNCHANGED httpVars

-----------------------------------------------------------------------------
(* The lifespan generator, lines 57-71 *)

ExcKinds == {"Exception", "BaseException"}

\* Mutant: no except clause catches the failure of initialize_database().
except_matches_nothing(kind) == FALSE

\* `except Exception as e` (line 65): an Exception is caught; a BaseException
\* that is no Exception (CancelledError, KeyboardInterrupt, GeneratorExit)
\* is not.
except_matches(kind) == kind = "Exception"

\* Mutant: the handler closes the client before it yields.
except_clause_closes ==
    [logs |-> <<"Failed to initialize database">>, closes |-> 1, inits |-> 0]

\* Mutant: the handler retries initialize_database().
except_clause_retries ==
    [logs |-> <<"Failed to initialize database">>, closes |-> 0, inits |-> 1]

\* Lines 66-67: the handler logs the error, then yields.
except_clause ==
    [logs |-> <<"Failed to initialize database">>, closes |-> 0, inits |-> 0]

\* Mutant: the shutdown step logs but does not close the client.
finally_clause_no_close ==
    [logs |-> <<"Database connection closed">>, closes |-> 0]

\* Lines 68-71: client.close(), then the log line.
finally_clause ==
    [logs |-> <<"Database connection closed">>, closes |-> 1]

\* The generator leaves the try statement: the finally clause runs and the
\* generator ends, with exception `exc` propagating ("none": it returns).
Leave(exc) ==
    [pc |-> "done", logs |-> finally_clause.logs,
     closes |-> finally_clause.closes, inits |-> 0, yields |-> 0,
     raised |-> exc]

\* An exception of `kind` is raised inside the try body (lines 61-64):
\* either the except clause takes it and yields at line 67, or it propagates
\* through the finally clause.
RaiseInTry(kind) ==
    IF except_matches(kind)
    THEN [pc |-> "yield67", logs |-> except_clause.logs,
          closes |-> except_clause.closes, inits |-> except_clause.inits,
          yields |-> 1, raised |-> "none"]
    ELSE Leave(kind)

\* An exception of `kind` is raised inside the except clause (at the yield of
\* line 67): nothing catches it, the finally clause runs.
RaiseInExcept(kind) == Leave(kind)

\* One resumption of the generator, from suspension point pc to the next one
\* or to its end.  ev is the outcome of initialize_database() when the
\* generator is started ("ok" or an exception kind), and "next" or the kind
\* of the exception thrown in when it is resumed at a yield.
lifespan(pc, ev) ==
    CASE pc = "unstarted" ->
            IF ev = "ok"
            THEN [pc |-> "yield64",
                  logs |-> <<"started successfully">>,
                  closes |-> 0, inits |-> 1, yields |-> 1, raised |-> "none"]
            ELSE [RaiseInTry(ev) EXCEPT !.inits = @ + 1]
      [] pc = "yield64" ->
            IF ev = "next" THEN Leave("none") ELSE RaiseInTry(ev)
      [] pc = "yield67" ->
            IF ev = "next" THEN Leave("none") ELSE RaiseInExcept(ev)

\* The effect of one resumption on the program state.
Resume(r) ==
    /\ genpc' = r.pc
    /\ yields' = yields + r.yields
    /\ initCalls' = initCalls + r.inits
    /\ closeCount' = closeCount + r.closes
    /\ client' = IF r.closes > 0 THEN "closed" ELSE client
    /\ logs' = logs \o r.logs

Suspended == genpc \in {"yield64", "yield67"}

\* Startup: __aenter__ starts the generator; initialize_database() returns
\* or raises.
LifespanStartup(outcome) ==
    /\ server = "starting"
    /\ genpc = "unstarted"
    /\ LET r == lifespan(genpc, outcome) IN
         /\ Resume(r)
         /\ raised' = r.raised
    /\ initOutcome' = outcome
    /\ UNCHANGED server
    /\ UNCHANGED importVars
    /\ UNCHANGED httpVars

\* The generator yielded: startup is complete and the server accepts
\* connections.
StartupComplete ==
    /\ server = "starting"
    /\ Suspended
    /\ server' = "running"
    /\ UNCHANGED client
    /\ UNCHANGED importVars
    /\ UNCHANGED genVars
    /\ UNCHANGED httpVars

\* The generator ended with an exception during startup: the server does
\* not start.
StartupFailed ==
    /\ server = "starting"
    /\ genpc = "done"
    /\ server' = "failed"
    /\ UNCHANGED client
    /\ UNCHANGED importVars
    /\ UNCHANGED genVars
    /\ UNCHANGED httpVars

\* The server stops accepting connections and sends the shutdown message.
ServerStop ==
    /\ server = "running"
    /\ server' = "stopping"
    /\ UNCHANGED client
    /\ UNCHANGED importVars
    /\ UNCHANGED genVars
    /\ UNCHANGED httpVars

\* Shutdown: __aexit__ without exception resumes the generator.
LifespanShutdown ==
    /\ server = "stopping"
    /\ Suspended
    /\ LET r == lifespan(genpc, "next") IN
         /\ Resume(r)
         /\ raised' = r.raised
    /\ server' = "stopped"
    /\ UNCHANGED initOutcome
    /\ UNCHANGED importVars
    /\ UNCHANGED httpVars

\* The body of the lifespan context raises while the server is running:
\* __aexit__ throws the exception into the generator at its yield.  A
\* generator that yields again makes __aexit__ raise
\* RuntimeError("generator didn't stop after athrow()").
LifespanThrow(kind) ==
    /\ server = "running"
    /\ Suspended
    /\ LET r == lifespan(genpc, kind) IN
         /\ Resume(r)
         /\ raised' = IF r.pc = "done" THEN r.raised ELSE "RuntimeError"
    /\ server' = "crashed"
    /\ UNCHANGED initOutcome
    /\ UNCHANGED importVars
    /\ UNCHANGED httpVars

\* A generator left suspended by a failed __aexit__ is closed when the event
\* loop shuts its async generators down: GeneratorExit is thrown at its
\* yield.
GeneratorFinalize ==
    /\ server = "crashed"
    /\ Suspended
    /\ Resume(lifespan(genpc, "BaseException"))
    /\ UNCHANGED <<raised, initOutcome, server>>
    /\ UNCHANGED importVars
    /\ UNCHANGED httpVars

-----------------------------------------------------------------------------
(* Root endpoint, lines 101-103 *)

\* Mutant: the endpoint reports the database state.
root_checks_database ==
    IF initOutcome = "ok"
    THEN [status |-> 200,
          body |-> "Student Exchange Programs API - Medi-Caps University"]
    ELSE [status |-> 503, body |-> "database unavailable"]

root ==
    [status |-> 200,
     body |-> "Student Exchange Programs API - Medi-Caps University"]

\* GET /api/ while the server is running.
RootRequest ==
    /\ server = "running"
    /\ reqCount < MaxRequests
    /\ lastResponse' = root
    /\ reqCount' = reqCount + 1
    /\ UNCHANGED <<lastCors, client, server>>
    /\ UNCHANGED importVars
    /\ UNCHANGED genVars

-----------------------------------------------------------------------------
(* CORS policy, lines 82-95, as CORSMiddleware applies it to a preflight *)

allow_origins ==
    <<"https://io.medicaps.ac.in", "http://localhost:3000",
      "http://127.0.0.1:3000", "http://localhost:3001",
      "http://127.0.0.1:3001", "*">>

allow_methods == {"GET", "POST", "PUT", "DELETE", "OPTIONS"}

\* Mutant: credentials not allowed.
allow_credentials_off == FALSE

allow_credentials == TRUE

allow_all_origins == "*" \in Range(allow_origins)

\* With credentials allowed the wildcard is never sent on a preflight: the
\* requesting origin is echoed.
preflight_explicit_allow_origin == ~allow_all_origins \/ allow_credentials

is_allowed_origin(origin) == allow_all_origins \/ origin \in Range(allow_origins)

\* allow_headers is ["*"]: no requested header is refused.
preflight_response(origin, method) ==
    LET originOk == is_allowed_origin(origin)
        methodOk == method \in allow_methods
    IN [status |-> IF originOk /\ methodOk THEN 200 ELSE 400,
        allow_origin |->
            IF preflight_explicit_allow_origin
            THEN (IF originOk THEN origin ELSE Absent)
            ELSE "*",
        allow_credentials |-> allow_credentials]

RequestOrigins == Range(allow_origins) \cup {ForeignOrigin}
RequestMethods == {"GET", "PATCH"}

\* OPTIONS with Origin and Access-Control-Request-Method headers.
Preflight(origin, method) ==
    /\ server = "running"
    /\ lastCors' = [origin |-> origin, method |-> method,
                    response |-> preflight_response(origin, method)]
    /\ UNCHANGED <<reqCount, lastResponse, client, server>>
    /\ UNCHANGED importVars
    /\ UNCHANGED genVars

-----------------------------------------------------------------------------
(* Process *)

\* The process ends: the import failed, or the server is down and the event
\* loop has closed its generators.
ProcessExit ==
    /\ \/ mpc = "import_error"
       \/ /\ mpc = "uvicorn_run"
          /\ server \in {"stopped", "failed", "crashed"}
          /\ genpc = "done"
    /\ mpc' = "exited"
    /\ UNCHANGED <<environ, dotenv_file, mongo_url, db_name, app, client, server>>
    /\ UNCHANGED genVars
    /\ UNCHANGED httpVars

\* No request answered yet.
NoResponse == [status |-> 0, body |-> ""]
NoCors ==
    [origin |-> None, method |-> None,
     response |-> [status |-> 0, allow_origin |-> Absent,
                   allow_credentials |-> FALSE]]

EnvValues(k) ==
    CASE k = "RENDER" -> {None, "true"}
      [] k = "MONGO_URL" -> {None, "", MongoUrl}
      [] k = "DB_NAME" -> {None, CustomDbName}

Init ==
    /\ environ \in {e \in [EnvKeys -> {None, "", "true", MongoUrl, CustomDbName}] :
                      \A k \in EnvKeys : e[k] \in EnvValues(k)}
    /\ dotenv_file \in {f \in [EnvKeys -> {None, "", MongoUrl, CustomDbName}] :
                      /\ f["RENDER"] = None
                      /\ f["MONGO_URL"] \in EnvValues("MONGO_URL")
                      /\ f["DB_NAME"] \in EnvValues("DB_NAME")}
    /\ mpc = "load_env"
    /\ mongo_url = Undefined
    /\ db_name = Undefined
    /\ client = "none"
    /\ app = "none"
    /\ server = "none"
    /\ genpc = "unstarted"
    /\ yields = 0
    /\ initCalls = 0
    /\ initOutcome = "none"
    /\ closeCount = 0
    /\ logs = << >>
    /\ raised = "none"
    /\ reqCount = 0
    /\ lastResponse = NoResponse
    /\ lastCors = NoCors

Next ==
    \/ LoadEnvironment
    \/ MongoSetup
    \/ ClientSetup
    \/ AppSetup
    \/ RunServer
    \/ \E outcome \in {"ok"} \cup ExcKinds : LifespanStartup(outcome)
    \/ StartupComplete
    \/ StartupFailed
    \/ RootRequest
    \/ \E origin \in RequestOrigins, method \in RequestMethods :
          Preflight(origin, method)
    \/ ServerStop
    \/ LifespanShutdown
    \/ \E kind \in ExcKinds : LifespanThrow(kind)
    \/ GeneratorFinalize
    \/ ProcessExit

Spec == Init /\ [][Next]_vars

\* The server proceeds to accept connections as soon as startup completes.
FairSpec == Spec /\ WF_vars(StartupComplete)

-----------------------------------------------------------------------------
(* Properties *)

FailedLogged == "Failed to initialize database" \in Range(logs)
StartedLogged == "started successfully" \in Range(logs)
ImportDone == mpc \notin {"load_env", "mongo_setup"}

\* C1: client.close() is never called twice; once the lifespan generator
\* has run to its end (shutdown reached) it has been called exactly once,
\* whatever initialize_database() did at startup; and a completed shutdown
\* or a failed startup has closed the client by the time the server is down.
C1_ClosedExactlyOnce ==
    /\ closeCount <= 1
    /\ genpc = "done" => closeCount = 1
    /\ server \in {"stopped", "failed"} => closeCount = 1

C1_Witness ==
    /\ initOutcome = "Exception"
    /\ server = "stopped"
    /\ genpc = "done"
    /\ closeCount = 1

\* C2: when initialize_database() raises an Exception at startup, the error
\* is logged, nothing propagates out of the startup step, the generator is
\* suspended at a yield, the server reaches the running state, and every
\* GET /api/ answered afterwards is the fixed 200 payload.
C2_DegradedStart ==
    /\ [](initOutcome = "Exception" =>
            /\ FailedLogged
            /\ server \in {"starting", "running"} =>
                  raised = "none" /\ Suspended
            /\ reqCount > 0 =>
                  lastResponse =
                    [status |-> 200,
                     body |-> "Student Exchange Programs API - Medi-Caps University"])
    /\ (initOutcome = "Exception" /\ server = "starting") ~> (server = "running")

C2_Witness ==
    /\ initOutcome = "Exception"
    /\ server = "running"
    /\ raised = "none"
    /\ reqCount > 0
    /\ lastResponse.status = 200

\* C3: when MONGO_URL is absent from the environment the module reads at
\* line 48, the import ends in the configuration error: no client is
\* constructed, no app is created and no server is started.
C3_MissingMongoUrlAborts ==
    (ImportDone /\ environ["MONGO_URL"] = None) =>
        /\ mpc \in {"import_error", "exited"}
        /\ mongo_url = None
        /\ client = "none"
        /\ app = "none"
        /\ server = "none"

C3_Witness ==
    /\ mpc = "import_error"
    /\ environ["MONGO_URL"] = None
    /\ environ["RENDER"] # None
    /\ dotenv_file["MONGO_URL"] = MongoUrl

\* C4: the server serves requests only while the client is open, and once
\* the client is closed no request is served, and the client is neither
\* reopened nor closed again.
C4_NoUseAfterClose ==
    /\ [](server = "running" => client = "open")
    /\ [][client = "closed" =>
            /\ UNCHANGED httpVars
            /\ client' = "closed"
            /\ closeCount' = closeCount]_vars

C4_Witness ==
    /\ client = "closed"
    /\ server = "stopped"
    /\ reqCount > 0
    /\ lastCors # NoCors

\* C5: every GET /api/ is answered while the server runs, with status 200
\* and the fixed message, whether initialization succeeded or failed, and
\* changes nothing but the record of the answer.
C5_RootAlwaysOk ==
    /\ [](reqCount > 0 =>
            lastResponse =
              [status |-> 200,
               body |-> "Student Exchange Programs API - Medi-Caps University"])
    /\ [][reqCount' # reqCount =>
            /\ server = "running"
            /\ lastResponse'.status = 200
            /\ UNCHANGED <<client, server, lastCors>>
            /\ UNCHANGED genVars
            /\ UNCHANGED importVars]_vars

C5_Witness ==
    /\ reqCount >= 2
    /\ initOutcome = "Exception"
    /\ genpc = "yield67"
    /\ lastResponse.status = 200

\* C6: a preflight whose Origin is in the configured allow-list is answered
\* with Access-Control-Allow-Origin equal to that origin.
C6_PreflightEchoesOrigin ==
    (lastCors # NoCors /\ lastCors.origin \in Range(allow_origins)) =>
        lastCors.response.allow_origin = lastCors.origin

C6_Witness ==
    /\ lastCors.origin = "https://io.medicaps.ac.in"
    /\ lastCors.method = "GET"
    /\ lastCors.response.status = 200
    /\ lastCors.response.allow_origin = "https://io.medicaps.ac.in"

\* C7: initialize_database() is called at most once; it has been called once
\* as soon as the lifespan generator has started, hence before the server
\* runs and before any request; it is not called again after a failure or by
\* a request.
C7_InitOnce ==
    /\ initCalls <= 1
    /\ genpc # "unstarted" => initCalls = 1
    /\ (server = "running" \/ reqCount > 0) => initCalls = 1

C7_Witness ==
    /\ initOutcome = "Exception"
    /\ genpc = "done"
    /\ reqCount > 0
    /\ initCalls = 1

\* C8: the lifespan generator yields at most once in every execution, also
\* when an exception is thrown into it at its yield.
C8_YieldsOnce == yields <= 1

\* C9: the failure message is logged only when initialize_database() raised,
\* and never in the same run as the success message.
C9_FailureLogOnlyOnInitFailure ==
    /\ FailedLogged => initOutcome = "Exception"
    /\ ~(FailedLogged /\ StartedLogged)

\* C10: an empty MONGO_URL aborts the import like an absent one, and
\* wherever the client exists mongo_url is the non-empty MONGO_URL of the
\* environment.
C10_EmptyMongoUrlRejected ==
    /\ (ImportDone /\ environ["MONGO_URL"] = "") =>
          /\ mpc \in {"import_error", "exited"}
          /\ client = "none"
    /\ client # "none" =>
          /\ mongo_url \notin {None, "", Undefined}
          /\ mongo_url = environ["MONGO_URL"]

C10_Witness ==
    /\ mpc = "import_error"
    /\ mongo_url = ""
    /\ environ["RENDER"] = None
    /\ dotenv_file["MONGO_URL"] = ""

=============================================================================
